---- MODULE Spec2Model ----
(***************************************************************************)
(* Model of the in-memory task store of src/main.py and the request and    *)
(* record models of src/models.py.  One action per request handler; in     *)
(* Spec and StoreSpec a request is handled to completion before the next   *)
(* one starts.                                                             *)
(*                                                                         *)
(* Spec follows the store under a running clock.  StoreSpec follows it     *)
(* under a clock that stands still: the timestamps then play no part, and  *)
(* it carries the claims about ids, keys and status codes.                 *)
(* ConcSpec follows requests handled by several worker threads at once     *)
(* (the handlers are sync functions, which the server runs in a thread     *)
(* pool): a thread can be switched out between any two statements.         *)
(***************************************************************************)
EXTENDS Integers, Sequences, FiniteSets, TLC

\* ------------------------------------------------------------------ bounds
\* Number of successful POST /tasks the model follows (next_id <= MaxCreates + 1).
MaxCreates == 2
\* datetime.now() returns a reading in 0..MaxTime.
MaxTime == 1
\* Number of worker threads that handle requests at the same time.
MaxThreads == 2

\* ------------------------------------------------------- program constants
TitleMinLength == 1
TitleMaxLength == 200
DescriptionMaxLength == 1000
HTTP_200_OK == 200
HTTP_201_CREATED == 201
HTTP_204_NO_CONTENT == 204
HTTP_404_NOT_FOUND == 404
HTTP_422_UNPROCESSABLE == 422
\* The server's answer to an exception no handler catches (a KeyError here).
HTTP_500_INTERNAL_SERVER_ERROR == 500

VARIABLES
    tasks_db,   \* main.tasks_db: the dict id -> Task, as its entries in insertion order
    next_id,    \* main.next_id
    response,   \* the last request handled and what the handler answered
    created,    \* history: the ids returned by the successful create_task calls, in order
    deleted,    \* history: the ids removed by a successful delete_task
    threads     \* the requests in flight: per worker thread, the handler it runs, its
                \* position in it and its locals (all idle when requests run one by one)

vars == <<tasks_db, next_id, response, created, deleted, threads>>

\* ------------------------------------------------------------ Python values
\* None is the empty tuple; every other value is a one-element tuple, so that
\* an Optional[...] field can be compared with None.
None == <<>>
\* The text "x" * n (the texts src/test_main.py builds), given by its length.
Str(n) == <<n>>
Bool(b) == <<b>>
len(s) == s[1]

\* The readings datetime.now() can give.  It is the naive local wall clock: two
\* reads in a row can give the same reading (finite resolution) and a later read
\* can give an earlier reading (clock step, end of daylight saving time).
datetime_now == 0 .. MaxTime
\* The readings of a clock that stands still while the requests are handled.
datetime_now_still == {0}

\* ------------------------------------------------------------ dict (builtin)
Keys(d) == {d[i].key : i \in DOMAIN d}
Has(d, k) == \E i \in DOMAIN d : d[i].key = k
Index(d, k) == CHOOSE i \in DOMAIN d : d[i].key = k
GetItem(d, k) == d[Index(d, k)].value
\* Mutant: an assignment to a key the dict holds moves its entry to the end
\* (del d[k]; d[k] = v).
SetItem_move_to_end(d, k, v) ==
    Append(SelectSeq(d, LAMBDA e : e.key # k), [key |-> k, value |-> v])

SetItem(d, k, v) ==
    IF Has(d, k) THEN [d EXCEPT ![Index(d, k)].value = v]
    ELSE Append(d, [key |-> k, value |-> v])
DelItem(d, k) == SelectSeq(d, LAMBDA e : e.key # k)
Values(d) == [i \in DOMAIN d |-> d[i].value]

\* ------------------------------------------------------------ request bodies
Fields == {"title", "description", "completed"}
TitleLengths == {0, TitleMaxLength, TitleMaxLength + 1}
DescriptionLengths == {DescriptionMaxLength, DescriptionMaxLength + 1}
TitleJson == {None} \cup {Str(n) : n \in TitleLengths}
DescriptionJson == {None} \cup {Str(n) : n \in DescriptionLengths}
CompletedJson == {None, Bool(TRUE), Bool(FALSE)}

\* A JSON body: the keys it holds (fields_set) and their values; a key it does
\* not hold reads as None.
Body(S, t, d, c) ==
    [fields_set |-> S, title |-> t, description |-> d, completed |-> c]

\* Mutant: the title without min_length, so that the empty title is accepted.
TaskBase_title_ok_no_min(b) ==
    /\ "title" \in b.fields_set
    /\ b.title # None
    /\ len(b.title) <= TitleMaxLength

\* TaskBase.title: str = Field(..., min_length=1, max_length=200)
TaskBase_title_ok(b) ==
    /\ "title" \in b.fields_set
    /\ b.title # None
    /\ len(b.title) >= TitleMinLength
    /\ len(b.title) <= TitleMaxLength

\* TaskBase.description: Optional[str] = Field(None, max_length=1000)
TaskBase_description_ok(b) ==
    \/ "description" \notin b.fields_set
    \/ b.description = None
    \/ len(b.description) <= DescriptionMaxLength

TaskCreate_valid(b) == TaskBase_title_ok(b) /\ TaskBase_description_ok(b)

\* TaskUpdate.title: Optional[str] = Field(None, min_length=1, max_length=200)
TaskUpdate_title_ok(b) ==
    \/ "title" \notin b.fields_set
    \/ b.title = None
    \/ (len(b.title) >= TitleMinLength /\ len(b.title) <= TitleMaxLength)

\* TaskUpdate.description: Optional[str] = Field(None, max_length=1000)
TaskUpdate_description_ok(b) ==
    \/ "description" \notin b.fields_set
    \/ b.description = None
    \/ len(b.description) <= DescriptionMaxLength

\* TaskUpdate.completed: Optional[bool] = None
TaskUpdate_completed_ok(b) == TRUE

TaskUpdate_valid(b) ==
    /\ TaskUpdate_title_ok(b)
    /\ TaskUpdate_description_ok(b)
    /\ TaskUpdate_completed_ok(b)

\* task_data.model_dump(exclude_unset=True): the fields the body holds.
model_dump_exclude_unset(b) == b.fields_set

\* Task(id=..., title=..., description=..., completed=..., created_at=..., updated_at=...)
Task(id, title, description, completed, created_at, updated_at) ==
    [id |-> id, title |-> title, description |-> description,
     completed |-> completed, created_at |-> created_at, updated_at |-> updated_at]

\* Mutant: model_dump() without exclude_unset, so that the fields the body does
\* not hold are overwritten with their default None.
setattr_all_unset_too(task, b) ==
    [task EXCEPT !.title = b.title, !.description = b.description,
                 !.completed = b.completed]

\* for field, value in update_data.items(): setattr(task, field, value)
setattr_all(task, b) ==
    [task EXCEPT
        !.title = IF "title" \in model_dump_exclude_unset(b) THEN b.title ELSE @,
        !.description =
            IF "description" \in model_dump_exclude_unset(b) THEN b.description ELSE @,
        !.completed =
            IF "completed" \in model_dump_exclude_unset(b) THEN b.completed ELSE @]

\* What the model keeps of the last request: the handler (op), its path or
\* query parameter (arg), whether the body passed the validation layer (valid),
\* the keys of update_data a successful update_task applied (applied), and the
\* answer (status, body).
Response(op, arg, valid, applied, status, body) ==
    [op |-> op, arg |-> arg, valid |-> valid, applied |-> applied,
     status |-> status, body |-> body]

\* ---------------------------------------------------------------- handlers
\* GET /tasks
get_tasks_result(completed) ==
    IF completed = None THEN Values(tasks_db)
    ELSE SelectSeq(Values(tasks_db), LAMBDA task : task.completed = completed)

get_tasks(completed) ==
    /\ response' = Response("get_tasks", completed, TRUE, {}, HTTP_200_OK, get_tasks_result(completed))
    /\ UNCHANGED <<tasks_db, next_id, created, deleted, threads>>

\* Mutant: return tasks_db.get(task_id), which answers 200 for an id that is
\* no key.
get_task_no_check(task_id) ==
    /\ response' =
         Response("get_task", task_id, TRUE, {}, HTTP_200_OK,
                  IF Has(tasks_db, task_id) THEN GetItem(tasks_db, task_id) ELSE None)
    /\ UNCHANGED <<tasks_db, next_id, created, deleted, threads>>

\* GET /tasks/{task_id}
get_task(task_id) ==
    /\ response' =
         IF ~Has(tasks_db, task_id)
         THEN Response("get_task", task_id, TRUE, {}, HTTP_404_NOT_FOUND, None)
         ELSE Response("get_task", task_id, TRUE, {}, HTTP_200_OK, GetItem(tasks_db, task_id))
    /\ UNCHANGED <<tasks_db, next_id, created, deleted, threads>>

\* Mutant: next_id += 1 runs before tasks_db[next_id] = new_task, so the task
\* is stored under the key after its id.
create_task_increments_first(task_data, now) ==
    IF ~TaskCreate_valid(task_data)
    THEN /\ response' = Response("create_task", None, FALSE, {}, HTTP_422_UNPROCESSABLE, None)
         /\ UNCHANGED <<tasks_db, next_id, created, deleted, threads>>
    ELSE /\ next_id <= MaxCreates
         /\ \E created_at \in now, updated_at \in now :
              LET new_task ==
                      Task(next_id, task_data.title,
                           IF "description" \in task_data.fields_set
                           THEN task_data.description ELSE None,
                           Bool(FALSE), created_at, updated_at)
              IN /\ next_id' = next_id + 1
                 /\ tasks_db' = SetItem(tasks_db, next_id', new_task)
                 /\ response' =
                      Response("create_task", None, TRUE, {}, HTTP_201_CREATED, new_task)
                 /\ created' = Append(created, new_task.id)
         /\ UNCHANGED <<deleted, threads>>

\* POST /tasks
create_task(task_data, now) ==
    IF ~TaskCreate_valid(task_data)
    THEN /\ response' = Response("create_task", None, FALSE, {}, HTTP_422_UNPROCESSABLE, None)
         /\ UNCHANGED <<tasks_db, next_id, created, deleted, threads>>
    ELSE /\ next_id <= MaxCreates
         /\ \E created_at \in now, updated_at \in now :
              LET new_task ==
                      Task(next_id, task_data.title,
                           IF "description" \in task_data.fields_set
                           THEN task_data.description ELSE None,
                           Bool(FALSE), created_at, updated_at)
              IN /\ tasks_db' = SetItem(tasks_db, next_id, new_task)
                 /\ next_id' = next_id + 1
                 /\ response' =
                      Response("create_task", None, TRUE, {}, HTTP_201_CREATED, new_task)
                 /\ created' = Append(created, new_task.id)
         /\ UNCHANGED <<deleted, threads>>

\* PUT /tasks/{task_id}
update_task(task_id, task_data, now) ==
    IF ~TaskUpdate_valid(task_data)
    THEN /\ response' = Response("update_task", task_id, FALSE, {}, HTTP_422_UNPROCESSABLE, None)
         /\ UNCHANGED <<tasks_db, next_id, created, deleted, threads>>
    ELSE IF ~Has(tasks_db, task_id)
    THEN /\ response' = Response("update_task", task_id, TRUE, {}, HTTP_404_NOT_FOUND, None)
         /\ UNCHANGED <<tasks_db, next_id, created, deleted, threads>>
    ELSE \E updated_at \in now :
         LET task == [setattr_all(GetItem(tasks_db, task_id), task_data)
                          EXCEPT !.updated_at = updated_at]
         IN /\ tasks_db' = SetItem(tasks_db, task_id, task)
            /\ response' = Response("update_task", task_id, TRUE,
                                     model_dump_exclude_unset(task_data), HTTP_200_OK, task)
            /\ UNCHANGED <<next_id, created, deleted, threads>>

\* Mutant: the delete also resets the counter to the number of tasks left.
delete_task_renumbers(task_id) ==
    IF ~Has(tasks_db, task_id)
    THEN /\ response' = Response("delete_task", task_id, TRUE, {}, HTTP_404_NOT_FOUND, None)
         /\ UNCHANGED <<tasks_db, next_id, created, deleted, threads>>
    ELSE /\ tasks_db' = DelItem(tasks_db, task_id)
         /\ next_id' = Len(tasks_db') + 1
         /\ response' = Response("delete_task", task_id, TRUE, {}, HTTP_204_NO_CONTENT, None)
         /\ deleted' = deleted \cup {task_id}
         /\ UNCHANGED <<created, threads>>

\* Mutant: tasks_db.popitem() in place of del tasks_db[task_id]: the entry
\* inserted last is removed, whatever its key.
delete_task_popitem(task_id) ==
    IF ~Has(tasks_db, task_id)
    THEN /\ response' = Response("delete_task", task_id, TRUE, {}, HTTP_404_NOT_FOUND, None)
         /\ UNCHANGED <<tasks_db, next_id, created, deleted, threads>>
    ELSE /\ tasks_db' = SubSeq(tasks_db, 1, Len(tasks_db) - 1)
         /\ response' = Response("delete_task", task_id, TRUE, {}, HTTP_204_NO_CONTENT, None)
         /\ deleted' = deleted \cup {task_id}
         /\ UNCHANGED <<next_id, created, threads>>

\* DELETE /tasks/{task_id}
delete_task(task_id) ==
    IF ~Has(tasks_db, task_id)
    THEN /\ response' = Response("delete_task", task_id, TRUE, {}, HTTP_404_NOT_FOUND, None)
         /\ UNCHANGED <<tasks_db, next_id, created, deleted, threads>>
    ELSE /\ tasks_db' = DelItem(tasks_db, task_id)
         /\ response' = Response("delete_task", task_id, TRUE, {}, HTTP_204_NO_CONTENT, None)
         /\ deleted' = deleted \cup {task_id}
         /\ UNCHANGED <<next_id, created, threads>>

\* ------------------------------------------------------------ specification
\* The ids of the requests: each is absent from tasks_db until the create_task
\* that assigns it, and again after its delete_task.
TaskIds == 1 .. MaxCreates

\* The worker threads of the server, and a thread that handles no request: pc is
\* the line of src/main.py the thread is about to run, task_id and task_data its
\* arguments, task its local new_task / task, tos the value of next_id it has
\* loaded for `next_id += 1`.
Threads == 1 .. MaxThreads
Thread(pc, op, task_id, task_data, task, tos) ==
    [pc |-> pc, op |-> op, task_id |-> task_id, task_data |-> task_data,
     task |-> task, tos |-> tos]
Idle == Thread("idle", "none", None, None, None, None)

Init ==
    /\ tasks_db = <<>>
    /\ next_id = 1
    /\ response = Response("none", None, TRUE, {}, HTTP_200_OK, None)
    /\ created = <<>>
    /\ deleted = {}
    /\ threads = [t \in Threads |-> Idle]

\* The request bodies of PUT: no key, one key or all three, each key null or
\* one of the texts / booleans above; a body that fails validation holds its
\* one invalid value and no other key.
UpdateBodies ==
    {b \in {Body(S, t, d, c) :
                S \in SUBSET Fields, t \in TitleJson, d \in DescriptionJson,
                c \in CompletedJson} :
        /\ "title" \notin b.fields_set => b.title = None
        /\ "description" \notin b.fields_set => b.description = None
        /\ "completed" \notin b.fields_set => b.completed = None
        /\ Cardinality(b.fields_set) # 2
        /\ TaskUpdate_valid(b) \/ Cardinality(b.fields_set) = 1}
\* The request bodies of POST: title and description, each absent, null or one
\* of the texts above.
CreateBodies ==
    {b \in {Body(S, t, d, None) :
                S \in SUBSET {"title", "description"}, t \in TitleJson,
                d \in DescriptionJson} :
        /\ "title" \notin b.fields_set => b.title = None
        /\ "description" \notin b.fields_set => b.description = None}

List == \E completed \in CompletedJson : get_tasks(completed)
Get == \E task_id \in TaskIds : get_task(task_id)
Create == \E b \in CreateBodies : create_task(b, datetime_now)
Update == \E task_id \in TaskIds : \E b \in UpdateBodies : update_task(task_id, b, datetime_now)
Delete == \E task_id \in TaskIds : delete_task(task_id)

Next == List \/ Get \/ Create \/ Update \/ Delete

Spec == Init /\ [][Next]_vars

\* The same requests under the clock that stands still.
StoreCreate == \E b \in CreateBodies : create_task(b, datetime_now_still)
StoreUpdate ==
    \E task_id \in TaskIds : \E b \in UpdateBodies :
        update_task(task_id, b, datetime_now_still)

StoreNext == List \/ Get \/ StoreCreate \/ StoreUpdate \/ Delete

StoreSpec == Init /\ [][StoreNext]_vars

\* ------------------------------------------------- requests handled at once
\* The handlers statement by statement.  A thread takes a request when it is
\* idle and runs the handler's lines in order; between two of its steps the
\* other threads can run theirs.  The clock stands still.

\* The bodies of the requests handled at once: POST {"title": "x" * 200} and
\* PUT {"completed": true}; both pass validation.
ConcCreateBody == Body({"title"}, Str(TitleMaxLength), None, None)
ConcUpdateBody == Body({"completed"}, None, None, Bool(TRUE))

\* The POST requests taken so far: answered or in flight.
CreatesTaken ==
    Len(created) + Cardinality({t \in Threads : threads[t].op = "create_task"})

\* An update_task past line 74 holds the Task object it fetched.  While that
\* object is the value of tasks_db[task_id] the thread's task is None and the
\* object is read through the dict; when the entry is deleted or assigned
\* another object, the thread keeps the object itself.
Detach(ths, k) ==
    [t \in Threads |->
        IF /\ ths[t].op = "update_task"
           /\ ths[t].pc = "76"
           /\ ths[t].task_id = k
           /\ ths[t].task = None
        THEN [ths[t] EXCEPT !.task = GetItem(tasks_db, k)]
        ELSE ths[t]]

\* create_task, lines 53-61: new_task = Task(id=next_id, ...)
create_task_53(t) ==
    /\ threads[t] = Idle
    /\ CreatesTaken < MaxCreates
    /\ \E created_at \in datetime_now_still, updated_at \in datetime_now_still :
         threads' = [threads EXCEPT ![t] =
            Thread("63", "create_task", None, ConcCreateBody,
                   Task(next_id, ConcCreateBody.title, None, Bool(FALSE),
                        created_at, updated_at),
                   None)]
    /\ UNCHANGED <<tasks_db, next_id, response, created, deleted>>

\* create_task, line 63: tasks_db[next_id] = new_task
create_task_63(t) ==
    /\ threads[t].op = "create_task"
    /\ threads[t].pc = "63"
    /\ tasks_db' = SetItem(tasks_db, next_id, threads[t].task)
    /\ threads' =
         LET ths == [threads EXCEPT ![t].pc = "64"]
         IN IF Has(tasks_db, next_id) THEN Detach(ths, next_id) ELSE ths
    /\ UNCHANGED <<next_id, response, created, deleted>>

\* create_task, line 64, first half of next_id += 1: load next_id
create_task_64(t) ==
    /\ threads[t].op = "create_task"
    /\ threads[t].pc = "64"
    /\ threads' = [threads EXCEPT ![t].pc = "64_store", ![t].tos = next_id]
    /\ UNCHANGED <<tasks_db, next_id, response, created, deleted>>

\* create_task, line 64, second half of next_id += 1: store the sum; and
\* line 65: return new_task
create_task_64_store(t) ==
    /\ threads[t].op = "create_task"
    /\ threads[t].pc = "64_store"
    /\ next_id' = threads[t].tos + 1
    /\ response' = Response("create_task", None, TRUE, {}, HTTP_201_CREATED, threads[t].task)
    /\ created' = Append(created, threads[t].task.id)
    /\ threads' = [threads EXCEPT ![t] = Idle]
    /\ UNCHANGED <<tasks_db, deleted>>

\* get_task, lines 42-46: if task_id not in tasks_db: raise HTTPException(404)
get_task_42(t, task_id) ==
    /\ threads[t] = Idle
    /\ IF ~Has(tasks_db, task_id)
       THEN /\ response' = Response("get_task", task_id, TRUE, {}, HTTP_404_NOT_FOUND, None)
            /\ UNCHANGED threads
       ELSE /\ threads' = [threads EXCEPT ![t] =
                              Thread("47", "get_task", task_id, None, None, None)]
            /\ UNCHANGED response
    /\ UNCHANGED <<tasks_db, next_id, created, deleted>>

\* get_task, line 47: return tasks_db[task_id]; a KeyError when the key is gone
get_task_47(t) ==
    /\ threads[t].op = "get_task"
    /\ threads[t].pc = "47"
    /\ response' =
         IF Has(tasks_db, threads[t].task_id)
         THEN Response("get_task", threads[t].task_id, TRUE, {}, HTTP_200_OK,
                       GetItem(tasks_db, threads[t].task_id))
         ELSE Response("get_task", threads[t].task_id, TRUE, {},
                       HTTP_500_INTERNAL_SERVER_ERROR, None)
    /\ threads' = [threads EXCEPT ![t] = Idle]
    /\ UNCHANGED <<tasks_db, next_id, created, deleted>>

\* update_task, lines 69-73: if task_id not in tasks_db: raise HTTPException(404)
update_task_69(t, task_id) ==
    /\ threads[t] = Idle
    /\ IF ~Has(tasks_db, task_id)
       THEN /\ response' = Response("update_task", task_id, TRUE, {}, HTTP_404_NOT_FOUND, None)
            /\ UNCHANGED threads
       ELSE /\ threads' = [threads EXCEPT ![t] =
                              Thread("74", "update_task", task_id, ConcUpdateBody, None, None)]
            /\ UNCHANGED response
    /\ UNCHANGED <<tasks_db, next_id, created, deleted>>

\* update_task, line 74: task = tasks_db[task_id]; a KeyError when the key is gone
update_task_74(t) ==
    /\ threads[t].op = "update_task"
    /\ threads[t].pc = "74"
    /\ IF Has(tasks_db, threads[t].task_id)
       THEN /\ threads' = [threads EXCEPT ![t].pc = "76"]
            /\ UNCHANGED response
       ELSE /\ response' = Response("update_task", threads[t].task_id, TRUE, {},
                                     HTTP_500_INTERNAL_SERVER_ERROR, None)
            /\ threads' = [threads EXCEPT ![t] = Idle]
    /\ UNCHANGED <<tasks_db, next_id, created, deleted>>

\* update_task, lines 75-79: the setattr loop, task.updated_at = datetime.now()
\* and return task, on the object fetched at line 74
update_task_76(t) ==
    /\ threads[t].op = "update_task"
    /\ threads[t].pc = "76"
    /\ \E updated_at \in datetime_now_still :
         LET in_dict == threads[t].task = None
             old == IF in_dict THEN GetItem(tasks_db, threads[t].task_id)
                    ELSE threads[t].task
             task == [setattr_all(old, threads[t].task_data)
                          EXCEPT !.updated_at = updated_at]
         IN /\ tasks_db' = IF in_dict THEN SetItem(tasks_db, threads[t].task_id, task)
                           ELSE tasks_db
            /\ response' = Response("update_task", threads[t].task_id, TRUE,
                                     model_dump_exclude_unset(threads[t].task_data),
                                     HTTP_200_OK, task)
    /\ threads' = [threads EXCEPT ![t] = Idle]
    /\ UNCHANGED <<next_id, created, deleted>>

\* delete_task, lines 83-87: if task_id not in tasks_db: raise HTTPException(404)
delete_task_83(t, task_id) ==
    /\ threads[t] = Idle
    /\ IF ~Has(tasks_db, task_id)
       THEN /\ response' = Response("delete_task", task_id, TRUE, {}, HTTP_404_NOT_FOUND, None)
            /\ UNCHANGED threads
       ELSE /\ threads' = [threads EXCEPT ![t] =
                              Thread("88", "delete_task", task_id, None, None, None)]
            /\ UNCHANGED response
    /\ UNCHANGED <<tasks_db, next_id, created, deleted>>

\* delete_task, line 88: del tasks_db[task_id]; a KeyError when the key is gone
delete_task_88(t) ==
    /\ threads[t].op = "delete_task"
    /\ threads[t].pc = "88"
    /\ IF Has(tasks_db, threads[t].task_id)
       THEN /\ tasks_db' = DelItem(tasks_db, threads[t].task_id)
            /\ response' = Response("delete_task", threads[t].task_id, TRUE, {},
                                     HTTP_204_NO_CONTENT, None)
            /\ deleted' = deleted \cup {threads[t].task_id}
            /\ threads' = Detach([threads EXCEPT ![t] = Idle], threads[t].task_id)
       ELSE /\ response' = Response("delete_task", threads[t].task_id, TRUE, {},
                                     HTTP_500_INTERNAL_SERVER_ERROR, None)
            /\ threads' = [threads EXCEPT ![t] = Idle]
            /\ UNCHANGED <<tasks_db, deleted>>
    /\ UNCHANGED <<next_id, created>>

ConcCreate ==
    \E t \in Threads :
        \/ create_task_53(t)
        \/ create_task_63(t)
        \/ create_task_64(t)
        \/ create_task_64_store(t)
ConcGet ==
    \E t \in Threads : (\E task_id \in TaskIds : get_task_42(t, task_id)) \/ get_task_47(t)
ConcUpdate ==
    \E t \in Threads :
        \/ \E task_id \in TaskIds : update_task_69(t, task_id)
        \/ update_task_74(t)
        \/ update_task_76(t)
ConcDelete ==
    \E t \in Threads :
        (\E task_id \in TaskIds : delete_task_83(t, task_id)) \/ delete_task_88(t)

ConcNext == ConcCreate \/ ConcGet \/ ConcUpdate \/ ConcDelete

ConcSpec == Init /\ [][ConcNext]_vars

\* ------------------------------------------------------------------ helpers
Range(q) == {q[i] : i \in DOMAIN q}
IsCreated == response.op = "create_task" /\ response.status = HTTP_201_CREATED
IsUpdated == response.op = "update_task" /\ response.status = HTTP_200_OK
IsDeleted == response.op = "delete_task" /\ response.status = HTTP_204_NO_CONTENT

\* -------------------------------------------------------------------- claims

\* C1: the k-th successful Create returns id k, whatever Deletes, Updates, Gets
\* and Lists came in between: the ids returned are 1, 2, 3, ... in order, next_id
\* is one more than the number of successful Creates (so no Delete lowered it),
\* and the id a Create returns was never deleted before.
C1_CreateIdsSequential ==
    /\ \A k \in DOMAIN created : created[k] = k
    /\ next_id = Len(created) + 1
    /\ IsCreated => /\ response.body.id = Len(created)
                    /\ response.body.id \notin deleted

C1_Witness ==
    /\ IsCreated
    /\ response.body.id = 2
    /\ 1 \in deleted

\* C2: a successful Update changes, on the task it names, only the fields of
\* its patch and updated_at: a field the patch does not hold keeps its value,
\* id and created_at keep theirs, every other task and next_id are unchanged,
\* and the dict holds the same keys in the same order.
C2_UpdateFrame ==
    [][(response'.op = "update_task" /\ response'.status = HTTP_200_OK) =>
        /\ Has(tasks_db, response'.arg)
        /\ Len(tasks_db') = Len(tasks_db)
        /\ \A i \in DOMAIN tasks_db :
            IF tasks_db[i].key = response'.arg
            THEN LET old == tasks_db[i].value
                     new == tasks_db'[i].value
                 IN /\ tasks_db'[i].key = tasks_db[i].key
                    /\ \A f \in Fields \ response'.applied : new[f] = old[f]
                    /\ new.id = old.id
                    /\ new.created_at = old.created_at
            ELSE tasks_db'[i] = tasks_db[i]
        /\ next_id' = next_id]_vars

\* An empty patch was applied to a task whose fields are all set, next to
\* another task.
C2_Witness ==
    /\ IsUpdated
    /\ response.applied = {}
    /\ response.body.description # None
    /\ Len(tasks_db) = 2

\* C3: every stored task has a title of 1 to 200 characters and a description
\* that is null or of at most 1000 characters.
C3_StoredFieldsValid ==
    \A i \in DOMAIN tasks_db :
        LET task == tasks_db[i].value
        IN /\ task.title # None
           /\ len(task.title) >= TitleMinLength
           /\ len(task.title) <= TitleMaxLength
           /\ \/ task.description = None
              \/ len(task.description) <= DescriptionMaxLength

\* C4: an Update of a stored task whose patch holds, for title or description,
\* a value that Create rejects for that field fails with 422 and leaves
\* tasks_db (the task and its updated_at with it) and next_id unchanged.
C4_UpdateValidatesLikeCreate ==
    [][\A task_id \in Keys(tasks_db) : \A b \in UpdateBodies :
        (/\ update_task(task_id, b, datetime_now)
         /\ \/ ("title" \in b.fields_set /\ ~TaskBase_title_ok(b))
            \/ ~TaskBase_description_ok(b))
        => /\ response'.status = HTTP_422_UNPROCESSABLE
           /\ tasks_db' = tasks_db
           /\ next_id' = next_id]_vars

\* C5: List(true) is exactly the stored tasks with completed = true, List(false)
\* is exactly the others, the two are disjoint and together they are the tasks
\* of List().
C5_ListPartition ==
    LET all == Range(get_tasks_result(None))
        done == Range(get_tasks_result(Bool(TRUE)))
        open == Range(get_tasks_result(Bool(FALSE)))
    IN /\ done = {task \in all : task.completed = Bool(TRUE)}
       /\ open = all \ done
       /\ done \cap open = {}
       /\ done \cup open = all

\* C6: a deleted id is never a key again, so a Get of it answers 404 from then
\* on; the successful Delete itself removes one entry (the length of List()
\* drops by one), leaves every other task as it was and leaves next_id alone.
C6_DeleteRemovesForGood ==
    [][/\ \A id \in deleted' : ~Has(tasks_db', id)
       /\ (response'.op = "get_task" /\ response'.arg \in deleted')
            => response'.status = HTTP_404_NOT_FOUND
       /\ (response'.op = "delete_task" /\ response'.status = HTTP_204_NO_CONTENT)
            => /\ response'.arg \in deleted'
               /\ Has(tasks_db, response'.arg)
               /\ Len(tasks_db') = Len(tasks_db) - 1
               /\ \A k \in Keys(tasks_db) \ {response'.arg} :
                    /\ Has(tasks_db', k)
                    /\ GetItem(tasks_db', k) = GetItem(tasks_db, k)
               /\ next_id' = next_id]_vars

\* A Get of a deleted id, asked after a later Create.
C6_Witness ==
    /\ response.op = "get_task"
    /\ response.arg \in deleted
    /\ response.status = HTTP_404_NOT_FOUND
    /\ Len(created) = 2
    /\ Len(tasks_db) = 1

\* C7: Get, Update with a valid patch and Delete of an id that is no key answer
\* 404 and leave tasks_db and next_id unchanged; of an id that is a key they
\* answer 200, 200 and 204.
C7_NotFound ==
    [][(response'.op \in {"get_task", "update_task", "delete_task"} /\ response'.valid) =>
        IF ~Has(tasks_db, response'.arg)
        THEN /\ response'.status = HTTP_404_NOT_FOUND
             /\ tasks_db' = tasks_db
             /\ next_id' = next_id
        ELSE response'.status =
                IF response'.op = "delete_task" THEN HTTP_204_NO_CONTENT
                ELSE HTTP_200_OK]_vars

\* An Update of an id that was created and then deleted.
C7_Witness ==
    /\ response.op = "update_task"
    /\ response.valid
    /\ response.arg \in deleted
    /\ response.status = HTTP_404_NOT_FOUND

\* C8: every successful Update leaves the task's updated_at strictly greater
\* than it was.
C8_UpdatedAtStrictlyIncreases ==
    [][(response'.op = "update_task" /\ response'.status = HTTP_200_OK) =>
        GetItem(tasks_db', response'.arg).updated_at
            > GetItem(tasks_db, response'.arg).updated_at]_vars

\* C9: a successful Create returns a task with the title and description of
\* the request (null when omitted), completed = false and
\* created_at = updated_at; it appends that one entry to the dict, and a Get of
\* the id then returns the same task.
C9_CreateReturnsStoredTask ==
    [][\A b \in CreateBodies :
        (create_task(b, datetime_now) /\ response'.status = HTTP_201_CREATED) =>
            LET task == response'.body
            IN /\ task.title = b.title
               /\ task.description =
                    IF "description" \in b.fields_set THEN b.description ELSE None
               /\ task.completed = Bool(FALSE)
               /\ task.created_at = task.updated_at
               /\ tasks_db' = Append(tasks_db, [key |-> task.id, value |-> task])
               /\ GetItem(tasks_db', task.id) = task]_vars

\* C10: every stored task has created_at <= updated_at, and no step changes
\* the created_at of a task that stays in the dict.
C10_CreatedBeforeUpdated ==
    [][/\ \A i \in DOMAIN tasks_db' :
            tasks_db'[i].value.created_at <= tasks_db'[i].value.updated_at
       /\ \A k \in Keys(tasks_db) \cap Keys(tasks_db') :
            GetItem(tasks_db', k).created_at = GetItem(tasks_db, k).created_at]_vars

\* The keys of a dict, and the ids of a list of tasks, in their order.
KeySeq(d) == [i \in DOMAIN d |-> d[i].key]
IdSeq(tasks) == [i \in DOMAIN tasks |-> tasks[i].id]
Ascending(q) == \A i, j \in DOMAIN q : i < j => q[i] < q[j]

C12_CreateRejectedExactlyWhen ==
    [][\A b \in CreateBodies :
        (response'.op = "create_task" /\ create_task(b, datetime_now_still)) =>
            LET title_missing == "title" \notin b.fields_set \/ b.title = None
                rejected ==
                    \/ title_missing
                    \/ len(b.title) = 0
                    \/ len(b.title) > 200
                    \/ /\ "description" \in b.fields_set
                       /\ b.description # None
                       /\ len(b.description) > 1000
            IN IF rejected
               THEN /\ response'.status = HTTP_422_UNPROCESSABLE
                    /\ tasks_db' = tasks_db
                    /\ next_id' = next_id
               ELSE /\ response'.status = HTTP_201_CREATED
                    /\ response'.body.id = next_id
                    /\ next_id' = next_id + 1
                    /\ Len(tasks_db') = Len(tasks_db) + 1]_vars

\* A Create rejected after one that succeeded: no id was consumed.
C12_Witness ==
    /\ response.op = "create_task"
    /\ response.status = HTTP_422_UNPROCESSABLE
    /\ Len(created) = 1
    /\ next_id = 2

\* C13: Creates handled at once get pairwise distinct ids, and once they are
\* all answered, with no Delete so far, tasks_db holds one task per successful
\* Create and next_id is one more than their number.
C13_ConcurrentCreatesDistinct ==
    /\ \A i, j \in DOMAIN created : i # j => created[i] # created[j]
    /\ ((\A t \in Threads : threads[t] = Idle) /\ deleted = {}) =>
            /\ Len(tasks_db) = Len(created)
            /\ next_id = 1 + Len(created)

\* C14: with requests handled at once, every answer is a success or one of the
\* two domain errors 404 and 422, never the 500 of an internal error (so of two
\* Deletes of one id one answers 204 and the other 404, and a Get racing a
\* Delete answers 200 or 404), and an Update that answers 200 was applied to
\* a task that is in tasks_db.
C14_NoInternalError ==
    [][/\ response'.status \in {HTTP_200_OK, HTTP_201_CREATED, HTTP_204_NO_CONTENT,
                                HTTP_404_NOT_FOUND, HTTP_422_UNPROCESSABLE}
       /\ \A t \in Threads :
            update_task_76(t) =>
                /\ Has(tasks_db', response'.arg)
                /\ GetItem(tasks_db', response'.arg) = response'.body]_vars

\* C15: with requests handled one by one, the task stored under key k has id k,
\* every key is in 1 .. next_id - 1, next_id is one more than the number of
\* successful Creates, it never decreases, and the only step that changes it
\* is a successful Create, which adds one.
C15_KeysAndCounter ==
    [][/\ \A i \in DOMAIN tasks_db' :
            /\ tasks_db'[i].value.id = tasks_db'[i].key
            /\ tasks_db'[i].key \in 1 .. (next_id' - 1)
       /\ next_id' = 1 + Len(created')
       /\ next_id' >= next_id
       /\ next_id' # next_id =>
            /\ response'.op = "create_task"
            /\ response'.status = HTTP_201_CREATED
            /\ next_id' = next_id + 1]_vars

\* An Update of task 2 after both Creates and the Delete of task 1.
C15_Witness ==
    /\ IsUpdated
    /\ response.arg = 2
    /\ deleted = {1}
    /\ next_id = 3
    /\ Keys(tasks_db) = {2}

\* C16: an Update whose patch is invalid (it holds, for title or description, a
\* value Create rejects for that field) answers 422 whether or not the id is a
\* key; it answers 404 only when the patch is valid and the id is no key; and
\* an Update that answers 422 or 404 leaves tasks_db and next_id unchanged.
C16_ValidationBeforeExistence ==
    [][\A task_id \in TaskIds : \A b \in UpdateBodies :
        (response'.op = "update_task" /\ update_task(task_id, b, datetime_now_still)) =>
            LET invalid ==
                    \/ ("title" \in b.fields_set /\ ~TaskBase_title_ok(b))
                    \/ ~TaskBase_description_ok(b)
            IN /\ invalid => response'.status = HTTP_422_UNPROCESSABLE
               /\ response'.status = HTTP_404_NOT_FOUND =>
                    (~invalid /\ ~Has(tasks_db, task_id))
               /\ response'.status \in {HTTP_404_NOT_FOUND, HTTP_422_UNPROCESSABLE} =>
                    (tasks_db' = tasks_db /\ next_id' = next_id)]_vars
====
